---- MODULE Spec2Model ----
(***************************************************************************)
(* Model of the video lexical extraction pipeline of                       *)
(* backend/utils/word_extractor.py (class WordExtractor):                  *)
(*   get_youtube_video_id, clean_word, extract_words,                      *)
(*   extract_from_captions, extract_from_audio_stream.                     *)
(*                                                                         *)
(* Python strings are TLA+ strings, taken apart with Len, SubSeq and \o.   *)
(* Python floats are exact rationals [n |-> numerator, d |-> denominator]  *)
(* in lowest terms.  The external collaborators (caption provider, pytube, *)
(* speech recogniser) are the environment: each call returns, or raises,   *)
(* one of a small set of outcomes chosen with \E.                          *)
(***************************************************************************)
EXTENDS Integers, Sequences, FiniteSets, TLC

VARIABLES
    pc,               \* position of extract_words
    video_url,        \* argument of extract_words
    video_id,         \* result of get_youtube_video_id ("" is None)
    video_length,     \* environment: the length pytube reports for the video
    words,            \* extract_words: words (raw, as collected)
    timestamps,       \* extract_words: timestamps (raw, as collected)
    caption_result,   \* extract_words: caption_result
    caption_success,  \* extract_words: caption_success
    audio_success,    \* extract_words: audio_success
    url_index,        \* extract_words: position in url_formats
    stream_chunks,    \* environment: chunks of audio left in the stream
    chunk_index,      \* number of loop iterations that recorded a chunk
    offset,           \* extract_from_audio_stream: offset
    a_words,          \* extract_from_audio_stream: words
    a_timestamps,     \* extract_from_audio_stream: timestamps
    a_collected,      \* history: the pairs the chunk loop emitted
    chunk_outcomes,   \* history: how each loop iteration on a chunk ended
    chunk_texts,      \* history: what recognize_google returned for each chunk ("" nothing)
    eof_reads,        \* chunks recorded after the stream was exhausted
    caption_error,    \* what the caption except-clause logged ("" none)
    caption_tokens,   \* history: the tokens findall gave over the transcript's entries
    audio_error,      \* what the audio except-clause logged ("" none)
    collected,        \* history: (word, timestamp) pairs as the extractors emitted them
    trace,            \* history: the external calls and decisions, in order
    error,            \* the exception extract_words raised ("" none)
    result,           \* the dictionary extract_words returned
    fn_arg,           \* the argument of a method that is called on its own
    fn_ret,           \* what the successive calls of that method returned
    id_cache,         \* lru_cache of get_youtube_video_id, least recently used first
    caption_cache,    \* lru_cache of extract_from_captions, least recently used first
    threads,          \* the requests served side by side: position and locals of each
    succeeded,        \* history: the URLs for which extract_from_captions has returned
    client,           \* environment: the caller that fills one of the two caches
    effects,          \* history: what the last cached call ran of its function's body
    exchanges         \* history: the requests POST /get_sign served, with the responses

vars == <<pc, video_url, video_id, video_length, words, timestamps,
          caption_result, caption_success, audio_success, url_index,
          stream_chunks, chunk_index, offset, a_words, a_timestamps,
          a_collected, chunk_outcomes, chunk_texts, eof_reads, caption_error,
          caption_tokens, audio_error, collected, trace, error, result,
          fn_arg, fn_ret, id_cache, caption_cache, threads, succeeded,
          client, effects, exchanges>>

(***************************************************************************)
(* Bounds of the model.                                                    *)
(***************************************************************************)
MaxEntries == 2
MaxChunks == 2
MaxEofReads == 1
LongLen == 101
MaxTokenLen == 3
MaxRequests == 2
\* requests POST /get_sign serves
MaxExchanges == 2
\* calls of a cached method once its cache is one entry short of full
MaxExtra == 3

(***************************************************************************)
(* Program constants.                                                      *)
(***************************************************************************)
max_video_duration == 3600
id_cache_maxsize == 100
caption_cache_maxsize == 50
\* models/inference.py: the frames of one sign
NUM_FRAMES == 30
min_word_length == 2
chunk_duration == 5

(***************************************************************************)
(* Strings.                                                                *)
(***************************************************************************)
Lowercase == "abcdefghijklmnopqrstuvwxyz"
Uppercase == "ABCDEFGHIJKLMNOPQRSTUVWXYZ"
Digits == "0123456789"
Whitespace == {" ", "\t", "\n"}

Ch(s, i) == SubSeq(s, i, i)

CharsOf(s) == {Ch(s, i) : i \in 1..Len(s)}

\* 0 when c does not occur in s
IndexOf(c, s) ==
    IF c \in CharsOf(s)
    THEN CHOOSE i \in 1..Len(s) : Ch(s, i) = c /\ \A j \in 1..(i - 1) : Ch(s, j) # c
    ELSE 0

LowerChar(c) ==
    IF IndexOf(c, Uppercase) > 0 THEN Ch(Lowercase, IndexOf(c, Uppercase)) ELSE c

RECURSIVE LowerFrom(_, _)
LowerFrom(s, i) ==
    IF i > Len(s) THEN "" ELSE LowerChar(Ch(s, i)) \o LowerFrom(s, i + 1)

\* str.lower()
lower(s) == LowerFrom(s, 1)

\* str.strip()
strip(s) ==
    LET keep == {i \in 1..Len(s) : Ch(s, i) \notin Whitespace}
    IN  IF keep = {} THEN ""
        ELSE LET lo == CHOOSE i \in keep : \A j \in keep : i <= j
                 hi == CHOOSE i \in keep : \A j \in keep : j <= i
             IN  SubSeq(s, lo, hi)

\* str.split()[0] of a string that holds a non-whitespace character
SplitFirst(s) ==
    LET t == strip(s)
        ws == {i \in 1..Len(t) : Ch(t, i) \in Whitespace}
    IN  IF ws = {} THEN t
        ELSE SubSeq(t, 1, (CHOOSE i \in ws : \A j \in ws : i <= j) - 1)

\* str.split(sep)[0] for a one-character separator
BeforeFirst(s, sep) ==
    IF IndexOf(sep, s) = 0 THEN s ELSE SubSeq(s, 1, IndexOf(sep, s) - 1)

RECURSIVE FilterFrom(_, _, _)
FilterFrom(s, i, keepset) ==
    IF i > Len(s) THEN ""
    ELSE (IF Ch(s, i) \in keepset THEN Ch(s, i) ELSE "") \o FilterFrom(s, i + 1, keepset)

\* re.sub(r'[^a-z]', '', s)
StripNonAlpha(s) == FilterFrom(s, 1, CharsOf(Lowercase))

\* the characters \w matches (ASCII)
WordChars == CharsOf(Lowercase) \cup CharsOf(Uppercase) \cup CharsOf(Digits) \cup {"_"}

RECURSIVE TokensFrom(_, _, _)
TokensFrom(s, i, cur) ==
    IF i > Len(s) THEN (IF cur = "" THEN <<>> ELSE <<cur>>)
    ELSE IF Ch(s, i) \in WordChars THEN TokensFrom(s, i + 1, cur \o Ch(s, i))
    ELSE (IF cur = "" THEN <<>> ELSE <<cur>>) \o TokensFrom(s, i + 1, "")

\* re.findall(r'\b\w+\b', s): the maximal runs of word characters, in order
FindWords(s) == TokensFrom(s, 1, "")

(***************************************************************************)
(* Floats, as exact rationals in lowest terms.                             *)
(***************************************************************************)
RECURSIVE Gcd(_, _)
Gcd(a, b) == IF b = 0 THEN a ELSE Gcd(b, a % b)

Rat(n, d) == LET g == Gcd(n, d) IN [n |-> n \div g, d |-> d \div g]

RatAdd(x, y) == Rat(x.n * y.d + y.n * x.d, x.d * y.d)

RatMul(k, x) == Rat(k * x.n, x.d)

RatLeq(x, y) == x.n * y.d <= y.n * x.d

(***************************************************************************)
(* get_youtube_video_id                                                    *)
(***************************************************************************)
\* the class [0-9A-Za-z_-]
IdChars == CharsOf(Digits) \cup CharsOf(Uppercase) \cup CharsOf(Lowercase) \cup {"_", "-"}

\* the alternatives before the group of each pattern, in the order tried
patterns == << <<"v=", "/v/", "/embed/", "youtu.be/">>,
               <<"watch?v=">>,
               <<"/video/">> >>

\* marker, then eleven characters of IdChars, at position p of url
MatchAt(url, p, marker) ==
    /\ p + Len(marker) + 10 <= Len(url)
    /\ SubSeq(url, p, p + Len(marker) - 1) = marker
    /\ \A k \in 0..10 : Ch(url, p + Len(marker) + k) \in IdChars

\* re.search(pattern, url).group(1), "" when there is no match: the leftmost
\* position at which an alternative matches, and the first such alternative
Search(markers, url) ==
    LET hits == {p \in 1..Len(url) : \E m \in 1..Len(markers) : MatchAt(url, p, markers[m])}
    IN  IF hits = {} THEN ""
        ELSE LET p == CHOOSE q \in hits : \A r \in hits : q <= r
                 m == CHOOSE k \in 1..Len(markers) :
                          /\ MatchAt(url, p, markers[k])
                          /\ \A j \in 1..(k - 1) : ~MatchAt(url, p, markers[j])
                 from == p + Len(markers[m])
             IN  SubSeq(url, from, from + 10)

\* the first pattern that matches wins; "" is None
get_youtube_video_id(url) ==
    IF url = "" THEN ""
    ELSE IF Search(patterns[1], url) # "" THEN Search(patterns[1], url)
    ELSE IF Search(patterns[2], url) # "" THEN Search(patterns[2], url)
    ELSE Search(patterns[3], url)

(***************************************************************************)
(* clean_word                                                              *)
(***************************************************************************)
contractions ==
    ("doesn't" :> "does not") @@
    ("don't" :> "do not") @@
    ("won't" :> "will not") @@
    ("can't" :> "cannot") @@
    ("isn't" :> "is not") @@
    ("ain't" :> "is not") @@
    ("aren't" :> "are not") @@
    ("wasn't" :> "was not") @@
    ("weren't" :> "were not") @@
    ("hasn't" :> "has not") @@
    ("haven't" :> "have not") @@
    ("hadn't" :> "had not") @@
    ("wouldn't" :> "would not") @@
    ("couldn't" :> "could not") @@
    ("shouldn't" :> "should not") @@
    ("mustn't" :> "must not") @@
    ("i'm" :> "i am") @@
    ("you're" :> "you are") @@
    ("he's" :> "he is") @@
    ("she's" :> "she is") @@
    ("it's" :> "it is") @@
    ("we're" :> "we are") @@
    ("they're" :> "they are") @@
    ("i've" :> "i have") @@
    ("you've" :> "you have") @@
    ("we've" :> "we have") @@
    ("they've" :> "they have") @@
    ("i'd" :> "i would") @@
    ("you'd" :> "you would") @@
    ("he'd" :> "he would") @@
    ("she'd" :> "she would") @@
    ("it'd" :> "it would") @@
    ("we'd" :> "we would") @@
    ("they'd" :> "they would") @@
    ("i'll" :> "i will") @@
    ("you'll" :> "you will") @@
    ("he'll" :> "he will") @@
    ("she'll" :> "she will") @@
    ("it'll" :> "it will") @@
    ("we'll" :> "we will") @@
    ("they'll" :> "they will")

noise_words == {"uh", "um", "ah", "er", "hm", "erm", "uhm", "hmm"}

\* mutant: the length is tested before the characters that are not letters
\* are removed
clean_word_LengthBeforeStrip(word) ==
    IF word = "" THEN ""
    ELSE LET w == strip(lower(word))
             x == IF w \in DOMAIN contractions THEN SplitFirst(contractions[w])
                  ELSE IF IndexOf("'", w) > 0 THEN BeforeFirst(w, "'")
                  ELSE w
             cleaned == StripNonAlpha(x)
         IN  IF cleaned \in noise_words \/ Len(x) < min_word_length
             THEN ""
             ELSE cleaned

\* mutant: the filler words are let through
clean_word_KeepsFillers(word) ==
    IF word = "" THEN ""
    ELSE LET w == strip(lower(word))
             x == IF w \in DOMAIN contractions THEN SplitFirst(contractions[w])
                  ELSE IF IndexOf("'", w) > 0 THEN BeforeFirst(w, "'")
                  ELSE w
             cleaned == StripNonAlpha(x)
         IN  IF Len(cleaned) < min_word_length
             THEN ""
             ELSE cleaned

clean_word(word) ==
    IF word = "" THEN ""
    ELSE LET w == strip(lower(word))
             x == IF w \in DOMAIN contractions THEN SplitFirst(contractions[w])
                  ELSE IF IndexOf("'", w) > 0 THEN BeforeFirst(w, "'")
                  ELSE w
             cleaned == StripNonAlpha(x)
         IN  IF cleaned \in noise_words \/ Len(cleaned) < min_word_length
             THEN ""
             ELSE cleaned

(***************************************************************************)
(* The inputs and the environment's answers.                               *)
(***************************************************************************)
URLs ==
    {"",
     "https://youtu.be/dQw4w9WgXcQ",
     "https://example.com/clip/42"}

Lengths == {max_video_duration, max_video_duration + 1}

EntryTexts == {"Go", "go 2 eat", "um, uh", "we eat now"}

Starts == {Rat(0, 1), Rat(5, 2)}

Entries == [text : EntryTexts, start : Starts]

\* twelve tokens, three of them repeats
ScenarioA ==
    << [text |-> "the quick brown fox", start |-> Rat(0, 1)],
       [text |-> "jumps over the lazy dog", start |-> Rat(2, 1)],
       [text |-> "the fox runs", start |-> Rat(5, 1)] >>

\* the i-th of a family of distinct three-letter words, i < 676
LongWord(i) == "x" \o Ch(Lowercase, (i \div 26) + 1) \o Ch(Lowercase, (i % 26) + 1)

\* LongLen entries of one new word each
LongTranscript == [i \in 1..LongLen |-> [text |-> LongWord(i - 1), start |-> Rat(i, 1)]]

Transcripts ==
    UNION {[1..n -> Entries] : n \in 0..MaxEntries} \cup {ScenarioA, LongTranscript}

ChunkTexts == {"um go", "we go now see eat", "uh"}

\* what the try body of one loop iteration can raise
ChunkErrors == {"UnknownValueError", "Exception", "WaitTimeoutError"}

(***************************************************************************)
(* Sequences of (word, timestamp) pairs.                                   *)
(***************************************************************************)
WordsOf(pairs) == [i \in 1..Len(pairs) |-> pairs[i].word]

TimestampsOf(pairs) == [i \in 1..Len(pairs) |-> pairs[i].timestamp]

Range(s) == {s[i] : i \in 1..Len(s)}

Min(a, b) == IF a <= b THEN a ELSE b

(***************************************************************************)
(* extract_from_captions, given what get_transcript returned               *)
(***************************************************************************)
\* mutant: the tokens of an entry are appended as they are, uncleaned
RECURSIVE EntryPairsRaw(_, _, _)
EntryPairsRaw(entry_words, i, start) ==
    IF i > Len(entry_words) THEN <<>>
    ELSE <<[word |-> entry_words[i], timestamp |-> start]>>
         \o EntryPairsRaw(entry_words, i + 1, start)

\* the inner loop: the tokens of one entry from the i-th on, with the entry's start
RECURSIVE EntryPairs(_, _, _)
EntryPairs(entry_words, i, start) ==
    IF i > Len(entry_words) THEN <<>>
    ELSE LET cleaned_word == clean_word(entry_words[i])
         IN  (IF cleaned_word # ""
              THEN <<[word |-> cleaned_word, timestamp |-> start]>>
              ELSE <<>>)
             \o EntryPairs(entry_words, i + 1, start)

\* the outer loop: the entries lo..hi in transcript order, the first half and
\* then the second (halved so that the evaluation stays shallow)
RECURSIVE TranscriptLoop(_, _, _)
TranscriptLoop(transcript, lo, hi) ==
    IF lo > hi THEN <<>>
    ELSE IF lo = hi
    THEN EntryPairs(FindWords(lower(transcript[lo].text)), 1, transcript[lo].start)
    ELSE TranscriptLoop(transcript, lo, (lo + hi) \div 2)
         \o TranscriptLoop(transcript, (lo + hi) \div 2 + 1, hi)

\* the (word, timestamp) pairs in the order extract_from_captions appends them
CaptionPairs(transcript) == TranscriptLoop(transcript, 1, Len(transcript))

extract_from_captions(transcript) ==
    [words |-> WordsOf(CaptionPairs(transcript)),
     timestamps |-> TimestampsOf(CaptionPairs(transcript))]

\* how many tokens findall gives over the entries lo..hi (halved like the loop)
RECURSIVE TokenCount(_, _, _)
TokenCount(transcript, lo, hi) ==
    IF lo > hi THEN 0
    ELSE IF lo = hi THEN Len(FindWords(lower(transcript[lo].text)))
    ELSE TokenCount(transcript, lo, (lo + hi) \div 2)
         + TokenCount(transcript, (lo + hi) \div 2 + 1, hi)

(***************************************************************************)
(* extract_from_audio_stream: one recognised chunk                         *)
(***************************************************************************)
\* the tokens of a chunk from the i-th (counted from 0) on
RECURSIVE ChunkPairsFrom(_, _, _, _)
ChunkPairsFrom(chunk_words, i, off, time_per_word) ==
    IF i >= Len(chunk_words) THEN <<>>
    ELSE LET cleaned_word == clean_word(chunk_words[i + 1])
         IN  (IF cleaned_word # ""
              THEN <<[word |-> cleaned_word,
                      timestamp |-> RatAdd(off, RatMul(i, time_per_word))]>>
              ELSE <<>>)
             \o ChunkPairsFrom(chunk_words, i + 1, off, time_per_word)

\* mutant: the tokens that normalize to nothing are dropped before the
\* timestamps are distributed
ChunkPairsKeptOnly(text, off) ==
    LET chunk_words == SelectSeq(FindWords(lower(text)), LAMBDA w : clean_word(w) # "")
    IN  IF chunk_words # <<>>
        THEN ChunkPairsFrom(chunk_words, 0, off, Rat(chunk_duration, Len(chunk_words)))
        ELSE <<>>

\* one recognised chunk: the pairs appended for it
ChunkPairs(text, off) ==
    LET chunk_words == FindWords(lower(text))
    IN  IF chunk_words # <<>>
        THEN ChunkPairsFrom(chunk_words, 0, off, Rat(chunk_duration, Len(chunk_words)))
        ELSE <<>>

\* mutant: the offset stays where it was
AdvanceStalled(off) == off

\* offset += float(chunk_duration)
Advance(off) == RatAdd(off, Rat(chunk_duration, 1))

(***************************************************************************)
(* extract_words: the decisions and the final loop                         *)
(***************************************************************************)
\* mutant: the audio strategy is entered first
FirstStrategyAudio == "connect"

\* where extract_words goes once the URL is resolved: the caption try-block
FirstStrategy == "captions"

\* mutant: audio also when captions gave fewer than five words
NeedAudioBelowThreshold(cs, ws) == ~cs \/ Len(ws) < 5

\* mutant: audio whatever the captions gave
NeedAudioAlways(cs, ws) == TRUE

\* mutant: audio also when the captions gave a single word
NeedAudioSingleWord(cs, ws) == ~cs \/ Len(ws) <= 1

\* if not caption_success or len(words) == 0
NeedAudio(cs, ws) == ~cs \/ Len(ws) = 0

\* mutant: the check for no words is left out
NoWordsNever(ws) == FALSE

\* if not words
NoWords(ws) == ws = <<>>

\* mutant: the duration check is left out
TooLongNever(length) == FALSE

\* if yt.length > self.max_video_duration
TooLong(length) == length > max_video_duration

\* the three addresses tried for pytube
url_formats(vid) ==
    << "https://youtube.com/watch?v=" \o vid,
       "https://www.youtube.com/watch?v=" \o vid,
       "https://youtu.be/" \o vid >>

\* mutant: the timestamp of a repeated word is appended too
DedupStepMisaligned(ws, ts, i, acc) ==
    LET cleaned_word == clean_word(ws[i])
    IN  IF cleaned_word # "" /\ cleaned_word \notin acc.seen
        THEN [unique_words |-> Append(acc.unique_words, cleaned_word),
              seen |-> acc.seen \cup {cleaned_word},
              cleaned_timestamps |-> Append(acc.cleaned_timestamps, ts[i])]
        ELSE IF cleaned_word # ""
        THEN [acc EXCEPT !.cleaned_timestamps = Append(acc.cleaned_timestamps, ts[i])]
        ELSE acc

\* mutant: a repeated word takes the timestamp of its latest occurrence
DedupStepLastTimestamp(ws, ts, i, acc) ==
    LET cleaned_word == clean_word(ws[i])
    IN  IF cleaned_word # "" /\ cleaned_word \notin acc.seen
        THEN [unique_words |-> Append(acc.unique_words, cleaned_word),
              seen |-> acc.seen \cup {cleaned_word},
              cleaned_timestamps |-> Append(acc.cleaned_timestamps, ts[i])]
        ELSE IF cleaned_word # ""
        THEN LET at == CHOOSE k \in 1..Len(acc.unique_words) : acc.unique_words[k] = cleaned_word
             IN  [acc EXCEPT !.cleaned_timestamps[at] = ts[i]]
        ELSE acc

\* one pass of the loop body, for the i-th pair: acc holds unique_words, seen
\* and cleaned_timestamps
DedupStep(ws, ts, i, acc) ==
    LET cleaned_word == clean_word(ws[i])
    IN  IF cleaned_word # "" /\ cleaned_word \notin acc.seen
        THEN [unique_words |-> Append(acc.unique_words, cleaned_word),
              seen |-> acc.seen \cup {cleaned_word},
              cleaned_timestamps |-> Append(acc.cleaned_timestamps, ts[i])]
        ELSE acc

\* for word, timestamp in zip(words, timestamps): the passes lo..hi in order,
\* the first half and then the second (halved so that the evaluation stays shallow)
RECURSIVE DedupLoop(_, _, _, _, _)
DedupLoop(ws, ts, lo, hi, acc) ==
    IF lo > hi THEN acc
    ELSE IF lo = hi THEN DedupStep(ws, ts, lo, acc)
    ELSE LET mid == (lo + hi) \div 2
             first == DedupLoop(ws, ts, lo, mid, acc)
         IN  \* either way the second half runs on what the first half left;
             \* the test makes TLC evaluate the first half before it goes on
             IF first.seen = {}
             THEN DedupLoop(ws, ts, mid + 1, hi, first)
             ELSE DedupLoop(ws, ts, mid + 1, hi, first)

Dedup(ws, ts) ==
    LET final == DedupLoop(ws, ts, 1, Min(Len(ws), Len(ts)),
                           [unique_words |-> <<>>, seen |-> {}, cleaned_timestamps |-> <<>>])
    IN  [words |-> final.unique_words, timestamps |-> final.cleaned_timestamps]

\* mutant: unique_words reports the number of raw words
MakeResultTotalAsUnique(ws, ts, cs, as) ==
    [words |-> Dedup(ws, ts).words,
     timestamps |-> Dedup(ws, ts).timestamps,
     metrics |-> [total_words |-> Len(ws),
                  unique_words |-> Len(ws),
                  caption_success |-> cs,
                  audio_success |-> as]]

\* mutant: total_words reports the number of words left after deduplication
MakeResultUniqueAsTotal(ws, ts, cs, as) ==
    [words |-> Dedup(ws, ts).words,
     timestamps |-> Dedup(ws, ts).timestamps,
     metrics |-> [total_words |-> Len(Dedup(ws, ts).words),
                  unique_words |-> Len(Dedup(ws, ts).words),
                  caption_success |-> cs,
                  audio_success |-> as]]

\* the returned dictionary
MakeResult(ws, ts, cs, as) ==
    [words |-> Dedup(ws, ts).words,
     timestamps |-> Dedup(ws, ts).timestamps,
     metrics |-> [total_words |-> Len(ws),
                  unique_words |-> Len(Dedup(ws, ts).words),
                  caption_success |-> cs,
                  audio_success |-> as]]

NoResult ==
    [words |-> <<>>, timestamps |-> <<>>,
     metrics |-> [total_words |-> 0, unique_words |-> 0,
                  caption_success |-> FALSE, audio_success |-> FALSE]]

(***************************************************************************)
(* The state machine of one call of extract_words.                         *)
(***************************************************************************)
NoCaptionResult == [words |-> <<>>, timestamps |-> <<>>]

(***************************************************************************)
(* functools.lru_cache: a cache is the sequence of its entries, the least  *)
(* recently used first.                                                    *)
(***************************************************************************)
CacheKeys(cache) == {cache[i].key : i \in 1..Len(cache)}

\* mutant: a lookup never finds its key
CacheHasNever(cache, key) == FALSE

CacheHas(cache, key) == key \in CacheKeys(cache)

CacheGet(cache, key) == cache[CHOOSE i \in 1..Len(cache) : cache[i].key = key].value

\* mutant: a hit leaves the entry where it was
CacheTouchInPlace(cache, key) == cache

\* a hit makes the entry the most recently used
CacheTouch(cache, key) ==
    SelectSeq(cache, LAMBDA e : e.key # key)
        \o <<[key |-> key, value |-> CacheGet(cache, key)]>>

\* mutant: the result is stored without looking whether the key came in
\* while the function was running
CacheStoreAlways(cache, key, value, maxsize) ==
    IF Len(cache) >= maxsize
    THEN Append(Tail(cache), [key |-> key, value |-> value])
    ELSE Append(cache, [key |-> key, value |-> value])

\* after a miss and the call: the result is stored, unless the key came in
\* meanwhile; a full cache drops its least recently used entry
CacheStore(cache, key, value, maxsize) ==
    IF CacheHas(cache, key) THEN cache
    ELSE IF Len(cache) >= maxsize
    THEN Append(Tail(cache), [key |-> key, value |-> value])
    ELSE Append(cache, [key |-> key, value |-> value])

\* get_youtube_video_id(url) through its cache, lookup to return in one step:
\* the value, and the cache after the call
CachedId(cache, url) ==
    IF CacheHas(cache, url) THEN CacheGet(cache, url) ELSE get_youtube_video_id(url)

IdCacheAfter(cache, url) ==
    IF CacheHas(cache, url) THEN CacheTouch(cache, url)
    ELSE CacheStore(cache, url, get_youtube_video_id(url), id_cache_maxsize)

\* the requests that are served side by side
Threads == {"t1", "t2"}

\* a thread between two requests, before its first
IdleThread ==
    [pc |-> "idle", url |-> "", vid |-> "", value |-> NoCaptionResult,
     outcome |-> "", fetched |-> FALSE, prior_url |-> FALSE, prior_id |-> FALSE,
     done |-> 0]

cacheVars == <<id_cache, caption_cache, threads, succeeded>>

\* the locals of extract_words and extract_from_audio_stream before the call
InitLocals ==
    /\ video_url = ""
    /\ video_id = ""
    /\ video_length = 0
    /\ words = <<>>
    /\ timestamps = <<>>
    /\ caption_result = NoCaptionResult
    /\ caption_success = FALSE
    /\ audio_success = FALSE
    /\ url_index = 1
    /\ stream_chunks = 0
    /\ chunk_index = 0
    /\ offset = Rat(0, 1)
    /\ a_words = <<>>
    /\ a_timestamps = <<>>
    /\ a_collected = <<>>
    /\ chunk_outcomes = <<>>
    /\ chunk_texts = <<>>
    /\ eof_reads = 0
    /\ caption_error = ""
    /\ caption_tokens = 0
    /\ audio_error = ""
    /\ collected = <<>>
    /\ trace = <<>>
    /\ error = ""
    /\ result = NoResult

\* no method is being called on its own
callVars == <<fn_arg, fn_ret>>

\* the caller of the cached methods and the handler of app.py
serviceVars == <<client, effects, exchanges>>

\* no cached method has been called from outside, no request has come in
InitService ==
    /\ client = [target |-> "", next |-> 1, extra |-> 0]
    /\ effects = [parsed |-> FALSE, fetched |-> FALSE, clock |-> 0,
                  id_used |-> <<>>, caption_used |-> <<>>]
    /\ exchanges = <<>>

\* the process has just started: the caches are empty, no request is served
InitCaches ==
    /\ id_cache = <<>>
    /\ caption_cache = <<>>
    /\ threads = [t \in Threads |-> IdleThread]
    /\ succeeded = {}

Init ==
    /\ pc = "idle"
    /\ InitLocals
    /\ fn_arg = <<>>
    /\ fn_ret = <<>>
    /\ InitCaches
    /\ InitService

requestVars == <<video_url, video_id, video_length>>

captionVars == <<caption_result, caption_success, caption_error, caption_tokens>>

loopVars == <<stream_chunks, chunk_index, offset, a_words, a_timestamps,
              a_collected, chunk_outcomes, chunk_texts, eof_reads>>

\* except Exception around the caption strategy: logged, the call goes on
CaughtCaptions(err) ==
    /\ caption_error' = err
    /\ pc' = "decide"
    /\ error' = error

\* mutant: a failure of the audio strategy reaches the caller
RaisedAudio(err) ==
    /\ audio_error' = err
    /\ pc' = "raised"
    /\ error' = err

\* except Exception around the audio strategy: logged, the call goes on
CaughtAudio(err) ==
    /\ audio_error' = err
    /\ pc' = "final"
    /\ error' = error

\* extract_words, to the first external call: the URL is resolved or refused
ExtractWords ==
    /\ pc = "idle"
    /\ \E url \in URLs, length \in Lengths :
        /\ video_url' = url
        /\ video_length' = length
        /\ video_id' = CachedId(id_cache, url)
        /\ id_cache' = IdCacheAfter(id_cache, url)
        /\ IF CachedId(id_cache, url) = ""
           THEN pc' = "raised" /\ error' = "InvalidURL"
           ELSE pc' = FirstStrategy /\ error' = error
    /\ UNCHANGED <<words, timestamps, captionVars, audio_success, url_index,
                   loopVars, audio_error, collected, trace, result>>
    /\ UNCHANGED <<callVars, serviceVars, caption_cache, threads, succeeded>>

\* the caption strategy: extract_from_captions and the try around it (the
\* call is the first of the process, so its lookup in caption_cache misses;
\* a result is stored, an exception is not)
TryCaptions ==
    /\ pc = "captions"
    /\ trace' = Append(trace, "get_transcript")
    /\ id_cache' = IdCacheAfter(id_cache, video_url)
    /\ \/ \* get_transcript raises
          /\ CaughtCaptions("NoCaptions")
          /\ UNCHANGED <<words, timestamps, caption_result, caption_success,
                         caption_tokens, collected, caption_cache, succeeded>>
       \/ \E transcript \in Transcripts :
            /\ caption_result' = extract_from_captions(transcript)
            /\ caption_cache' = CacheStore(caption_cache, video_url,
                                           extract_from_captions(transcript),
                                           caption_cache_maxsize)
            /\ succeeded' = succeeded \cup {video_url}
            /\ caption_tokens' = TokenCount(transcript, 1, Len(transcript))
            /\ IF extract_from_captions(transcript).words # <<>>
               THEN /\ words' = words \o extract_from_captions(transcript).words
                    /\ timestamps' = timestamps \o extract_from_captions(transcript).timestamps
                    /\ collected' = collected \o CaptionPairs(transcript)
                    /\ caption_success' = TRUE
               ELSE UNCHANGED <<words, timestamps, caption_success, collected>>
            /\ pc' = "decide"
            /\ UNCHANGED <<caption_error, error>>
    /\ UNCHANGED <<requestVars, audio_success, url_index, loopVars, audio_error, result>>
    /\ UNCHANGED <<callVars, serviceVars, threads>>

\* the decision to run the audio strategy
DecideAudio ==
    /\ pc = "decide"
    /\ trace' = Append(trace, "decide")
    /\ pc' = IF NeedAudio(caption_success, words) THEN "connect" ELSE "final"
    /\ UNCHANGED <<requestVars, words, timestamps, captionVars, audio_success,
                   url_index, loopVars, audio_error, collected, error, result>>
    /\ UNCHANGED <<callVars, serviceVars, cacheVars>>

\* mutant: a failed connection is tried again with the same address, without end
ConnectYouTubeRetrySame ==
    /\ pc = "connect"
    /\ trace' = Append(trace, "YouTube")
    /\ \/ /\ url_index' = url_index
          /\ UNCHANGED <<pc, audio_error, error>>
       \/ /\ url_index' = url_index
          /\ IF TooLong(video_length)
             THEN CaughtAudio("VideoTooLong")
             ELSE pc' = "audio" /\ UNCHANGED <<audio_error, error>>
    /\ UNCHANGED <<requestVars, words, timestamps, captionVars, audio_success,
                   loopVars, collected, result>>
    /\ UNCHANGED <<callVars, serviceVars, cacheVars>>

\* one pass of the loop over url_formats, and the duration check after it
ConnectYouTube ==
    /\ pc = "connect"
    /\ trace' = Append(trace, "YouTube")
    /\ \/ \* pytube.YouTube(url) or yt.length raises
          IF url_index < Len(url_formats(video_id))
          THEN /\ url_index' = url_index + 1
               /\ UNCHANGED <<pc, audio_error, error>>
          ELSE /\ url_index' = url_index
               /\ CaughtAudio("ConnectFailed")
       \/ \* connected: yt.length is the video's length
          /\ url_index' = url_index
          /\ IF TooLong(video_length)
             THEN CaughtAudio("VideoTooLong")
             ELSE pc' = "audio" /\ UNCHANGED <<audio_error, error>>
    /\ UNCHANGED <<requestVars, words, timestamps, captionVars, audio_success,
                   loopVars, collected, result>>
    /\ UNCHANGED <<callVars, serviceVars, cacheVars>>

\* extract_from_audio_stream, to the chunk loop
OpenAudioStream ==
    /\ pc = "audio"
    /\ \/ \* no audio-only mp4 stream
          /\ trace' = trace \o <<"extract_from_audio_stream", "streams">>
          /\ CaughtAudio("NoAudioStream")
          /\ UNCHANGED <<stream_chunks, offset>>
       \/ \* stream_to_buffer or AudioFile raises
          /\ trace' = trace \o <<"extract_from_audio_stream", "streams", "stream_to_buffer">>
          /\ CaughtAudio("DownloadFailed")
          /\ UNCHANGED <<stream_chunks, offset>>
       \/ \E n \in 0..MaxChunks :
          /\ trace' = trace \o <<"extract_from_audio_stream", "streams", "stream_to_buffer">>
          /\ stream_chunks' = n
          /\ offset' = Rat(0, 1)
          /\ pc' = "chunk"
          /\ UNCHANGED <<audio_error, error>>
    /\ UNCHANGED <<requestVars, words, timestamps, captionVars, audio_success,
                   url_index, chunk_index, a_words, a_timestamps, a_collected,
                   chunk_outcomes, chunk_texts, eof_reads, collected, result>>
    /\ UNCHANGED <<callVars, serviceVars, cacheVars>>

\* mutant: a skipped chunk leaves the offset where it was
AfterChunkErrorNoAdvance(err) ==
    IF err = "WaitTimeoutError"
    THEN /\ pc' = "audio_done"
         /\ offset' = offset
    ELSE /\ pc' = "chunk"
         /\ offset' = offset

\* mutant: a timed-out chunk is skipped like any other failed chunk
AfterChunkErrorTimeoutSkips(err) ==
    /\ pc' = "chunk"
    /\ offset' = Advance(offset)

\* what the except clauses of the loop do with the offset and the loop
AfterChunkError(err) ==
    IF err = "WaitTimeoutError"
    THEN /\ pc' = "audio_done"
         /\ offset' = offset
    ELSE /\ pc' = "chunk"
         /\ offset' = Advance(offset)

\* one iteration of the chunk loop on a chunk of audio
ProcessChunk ==
    /\ pc = "chunk"
    /\ stream_chunks > 0
    /\ stream_chunks' = stream_chunks - 1
    /\ chunk_index' = chunk_index + 1
    /\ trace' = trace \o <<"record", "recognize_google">>
    /\ \/ \E text \in ChunkTexts :
            /\ a_words' = a_words \o WordsOf(ChunkPairs(text, offset))
            /\ a_timestamps' = a_timestamps \o TimestampsOf(ChunkPairs(text, offset))
            /\ a_collected' = a_collected \o ChunkPairs(text, offset)
            /\ offset' = Advance(offset)
            /\ pc' = "chunk"
            /\ chunk_outcomes' = Append(chunk_outcomes, "recognized")
            /\ chunk_texts' = Append(chunk_texts, text)
       \/ \E err \in ChunkErrors :
            /\ AfterChunkError(err)
            /\ chunk_outcomes' = Append(chunk_outcomes, err)
            /\ chunk_texts' = Append(chunk_texts, "")
            /\ UNCHANGED <<a_words, a_timestamps, a_collected>>
    /\ UNCHANGED <<requestVars, words, timestamps, captionVars, audio_success,
                   url_index, eof_reads, audio_error, collected, error, result>>
    /\ UNCHANGED <<callVars, serviceVars, cacheVars>>

\* the stream is exhausted and record returns an empty chunk that is not
\* falsy: nothing is recognised in it
ProcessEmptyChunk ==
    /\ pc = "chunk"
    /\ stream_chunks = 0
    /\ eof_reads < MaxEofReads
    /\ eof_reads' = eof_reads + 1
    /\ chunk_index' = chunk_index + 1
    /\ trace' = trace \o <<"record", "recognize_google">>
    /\ \E err \in ChunkErrors :
            /\ AfterChunkError(err)
            /\ chunk_outcomes' = Append(chunk_outcomes, err)
            /\ chunk_texts' = Append(chunk_texts, "")
    /\ UNCHANGED <<requestVars, words, timestamps, captionVars, audio_success,
                   url_index, stream_chunks, a_words, a_timestamps, a_collected,
                   audio_error, collected, error, result>>
    /\ UNCHANGED <<callVars, serviceVars, cacheVars>>

\* the stream is exhausted and record returns a falsy chunk: break
StreamExhausted ==
    /\ pc = "chunk"
    /\ stream_chunks = 0
    /\ trace' = Append(trace, "record")
    /\ pc' = "audio_done"
    /\ UNCHANGED <<requestVars, words, timestamps, captionVars, audio_success,
                   url_index, loopVars, audio_error, collected, error, result>>
    /\ UNCHANGED <<callVars, serviceVars, cacheVars>>

\* after the loop: extract_from_audio_stream returns or raises, and
\* extract_words takes the words or logs the failure
FinishAudio ==
    /\ pc = "audio_done"
    /\ IF a_words = <<>>
       THEN /\ CaughtAudio("NoAudioWords")
            /\ UNCHANGED <<words, timestamps, collected, audio_success>>
       ELSE /\ words' = words \o a_words
            /\ timestamps' = timestamps \o a_timestamps
            /\ collected' = collected \o a_collected
            /\ audio_success' = TRUE
            /\ pc' = "final"
            /\ UNCHANGED <<audio_error, error>>
    /\ UNCHANGED <<requestVars, captionVars, url_index, loopVars, trace, result>>
    /\ UNCHANGED <<callVars, serviceVars, cacheVars>>

\* the check for no words, the cleaning and deduplication, the return
Finalize ==
    /\ pc = "final"
    /\ IF NoWords(words)
       THEN /\ error' = "NoWordsExtracted"
            /\ pc' = "raised"
            /\ result' = result
       ELSE /\ result' = MakeResult(words, timestamps, caption_success, audio_success)
            /\ pc' = "returned"
            /\ error' = error
    /\ UNCHANGED <<requestVars, words, timestamps, captionVars, audio_success,
                   url_index, loopVars, audio_error, collected, trace>>
    /\ UNCHANGED <<callVars, serviceVars, cacheVars>>

Next ==
    \/ ExtractWords
    \/ TryCaptions
    \/ DecideAudio
    \/ ConnectYouTube
    \/ OpenAudioStream
    \/ ProcessChunk
    \/ ProcessEmptyChunk
    \/ StreamExhausted
    \/ FinishAudio
    \/ Finalize

Spec == Init /\ [][Next]_vars

(***************************************************************************)
(* Each extraction strategy called on its own: extract_from_captions on    *)
(* what get_transcript returned, extract_from_audio_stream on a stream.    *)
(***************************************************************************)
InitStrategies ==
    /\ InitLocals
    /\ InitCaches
    /\ InitService
    /\ fn_ret = <<>>
    /\ \/ pc = "extract_from_captions" /\ fn_arg \in Transcripts
       \/ pc = "audio" /\ fn_arg = <<>>

\* extract_from_captions, from the transcript to the returned dictionary
ExtractFromCaptions ==
    /\ pc = "extract_from_captions"
    /\ trace' = Append(trace, "get_transcript")
    /\ \/ \* get_transcript raises
          /\ error' = "NoCaptions"
          /\ pc' = "raised"
          /\ fn_ret' = fn_ret
       \/ \* get_transcript returns fn_arg
          /\ fn_ret' = <<extract_from_captions(fn_arg)>>
          /\ pc' = "returned"
          /\ error' = error
    /\ UNCHANGED <<requestVars, words, timestamps, captionVars, audio_success,
                   url_index, loopVars, audio_error, collected, result, fn_arg,
                   cacheVars, serviceVars>>

\* extract_from_audio_stream after the loop: no words is an error, otherwise
\* the words and the timestamps are returned
ReturnAudio ==
    /\ pc = "audio_done"
    /\ IF a_words = <<>>
       THEN /\ error' = "NoAudioWords"
            /\ pc' = "raised"
            /\ fn_ret' = fn_ret
       ELSE /\ fn_ret' = <<[words |-> a_words, timestamps |-> a_timestamps]>>
            /\ pc' = "returned"
            /\ error' = error
    /\ UNCHANGED <<requestVars, words, timestamps, captionVars, audio_success,
                   url_index, loopVars, audio_error, collected, trace, result,
                   fn_arg, cacheVars, serviceVars>>

NextStrategies ==
    \/ ExtractFromCaptions
    \/ OpenAudioStream
    \/ ProcessChunk
    \/ ProcessEmptyChunk
    \/ StreamExhausted
    \/ ReturnAudio

SpecStrategies == InitStrategies /\ [][NextStrategies]_vars

(***************************************************************************)
(* clean_word called on its own, and then on what it returned (as the      *)
(* final loop of extract_words does with the words of the extractors).     *)
(***************************************************************************)
\* the characters the input strings are made of
TokenAlphabet == {"a", "u", "m", "i", "I", "t", "'", " ", "2"}

\* every string of at most n characters of TokenAlphabet
RECURSIVE StringsUpTo(_)
StringsUpTo(n) ==
    IF n = 0 THEN {""}
    ELSE StringsUpTo(n - 1)
         \cup {s \o c : s \in StringsUpTo(n - 1), c \in TokenAlphabet}

\* the short strings, every contraction, bare, capitalized and padded, and
\* some longer words
RawStrings ==
    StringsUpTo(MaxTokenLen)
    \cup DOMAIN contractions
    \cup {" " \o k \o "\n" : k \in DOMAIN contractions}
    \cup {"I'M", "Don't", "DON'T", "o'clock", "rock'n'roll", "Hmm", "uhm!", "e-mail",
          "sign2text", "under_score", "  ", "'tis", "hello"}

InitCleanWord ==
    /\ pc = "clean_word"
    /\ InitLocals
    /\ fn_arg \in RawStrings
    /\ fn_ret = <<>>
    /\ InitCaches
    /\ InitService

\* clean_word(word), on the argument first and on its own result after that
CleanWord ==
    /\ pc = "clean_word"
    /\ Len(fn_ret) < 2
    /\ fn_ret' = Append(fn_ret, clean_word(IF fn_ret = <<>> THEN fn_arg
                                           ELSE fn_ret[Len(fn_ret)]))
    /\ UNCHANGED <<pc, requestVars, words, timestamps, captionVars, audio_success,
                   url_index, loopVars, audio_error, collected, trace, error,
                   result, fn_arg, cacheVars, serviceVars>>

NextCleanWord == CleanWord

SpecCleanWord == InitCleanWord /\ [][NextCleanWord]_vars

(***************************************************************************)
(* Several requests on the shared WordExtractor, some at the same time:    *)
(* of each request the part that goes through the two caches,              *)
(* get_youtube_video_id(video_url) and then extract_from_captions          *)
(* (video_url), as extract_words calls them.  A thread can be preempted    *)
(* between the lookup and the store of a cached call, and around the call  *)
(* to the caption provider.  The caption track of a video does not change  *)
(* while the process runs.                                                 *)
(***************************************************************************)
\* two shapes of address for one video, and an address that is none
CacheURLs ==
    {"https://www.youtube.com/watch?v=dQw4w9WgXcQ",
     "https://youtu.be/dQw4w9WgXcQ",
     "https://example.com/clip/42"}

\* what get_transcript returns for a video, whenever it returns
CaptionTrack(vid) ==
    << [text |-> "Go", start |-> Rat(0, 1)],
       [text |-> "go 2 eat", start |-> Rat(5, 2)] >>

pipelineVars == <<pc, requestVars, words, timestamps, captionVars, audio_success,
                  url_index, loopVars, audio_error, collected, trace, error,
                  result, callVars>>

InitCache ==
    /\ pc = "serving"
    /\ InitLocals
    /\ fn_arg = <<>>
    /\ fn_ret = <<>>
    /\ InitCaches
    /\ InitService

\* extract_words once get_youtube_video_id has returned: no identifier is
\* InvalidURL, otherwise extract_from_captions is called
AfterId(th) ==
    IF th.vid = ""
    THEN [th EXCEPT !.pc = "idle", !.outcome = "InvalidURL", !.done = @ + 1]
    ELSE [th EXCEPT !.pc = "captions"]

\* a request arrives: get_youtube_video_id(video_url) looks its key up
BeginRequest(t) ==
    /\ threads[t].pc = "idle"
    /\ threads[t].done < MaxRequests
    /\ \E url \in CacheURLs :
         LET fresh == [IdleThread EXCEPT
                         !.url = url,
                         !.vid = CachedId(id_cache, url),
                         !.done = threads[t].done,
                         !.prior_url = url \in succeeded,
                         !.prior_id = \E u \in succeeded :
                                         get_youtube_video_id(u) = get_youtube_video_id(url)]
         IN  IF CacheHas(id_cache, url)
             THEN /\ id_cache' = CacheTouch(id_cache, url)
                  /\ threads' = [threads EXCEPT ![t] = AfterId(fresh)]
             ELSE /\ id_cache' = id_cache
                  /\ threads' = [threads EXCEPT ![t] = [fresh EXCEPT !.pc = "id_store"]]
    /\ UNCHANGED <<pipelineVars, serviceVars, caption_cache, succeeded>>

\* get_youtube_video_id after a miss: the identifier is stored and returned
StoreId(t) ==
    /\ threads[t].pc = "id_store"
    /\ id_cache' = CacheStore(id_cache, threads[t].url, threads[t].vid, id_cache_maxsize)
    /\ threads' = [threads EXCEPT ![t] = AfterId(threads[t])]
    /\ UNCHANGED <<pipelineVars, serviceVars, caption_cache, succeeded>>

\* extract_from_captions(video_url) looks its key up
LookupCaptions(t) ==
    /\ threads[t].pc = "captions"
    /\ IF CacheHas(caption_cache, threads[t].url)
       THEN /\ caption_cache' = CacheTouch(caption_cache, threads[t].url)
            /\ threads' = [threads EXCEPT ![t] =
                              [@ EXCEPT !.pc = "idle", !.outcome = "hit",
                                        !.value = CacheGet(caption_cache, threads[t].url),
                                        !.done = @ + 1]]
            /\ succeeded' = succeeded \cup {threads[t].url}
       ELSE /\ threads' = [threads EXCEPT ![t].pc = "body"]
            /\ UNCHANGED <<caption_cache, succeeded>>
    /\ UNCHANGED <<pipelineVars, serviceVars, id_cache>>

\* the body of extract_from_captions after a miss: the identifier again,
\* the call to the caption provider, the loops over what it returned
FetchCaptions(t) ==
    /\ threads[t].pc = "body"
    /\ id_cache' = IdCacheAfter(id_cache, threads[t].url)
    /\ \/ \* get_transcript raises: nothing is stored
          threads' = [threads EXCEPT ![t] =
                         [@ EXCEPT !.pc = "idle", !.outcome = "NoCaptions",
                                   !.fetched = TRUE, !.done = @ + 1]]
       \/ threads' = [threads EXCEPT ![t] =
                         [@ EXCEPT !.pc = "store", !.fetched = TRUE,
                                   !.value = extract_from_captions(
                                       CaptionTrack(CachedId(id_cache, threads[t].url)))]]
    /\ UNCHANGED <<pipelineVars, serviceVars, caption_cache, succeeded>>

\* extract_from_captions after the body: the result is stored and returned
StoreCaptions(t) ==
    /\ threads[t].pc = "store"
    /\ caption_cache' = CacheStore(caption_cache, threads[t].url, threads[t].value,
                                   caption_cache_maxsize)
    /\ threads' = [threads EXCEPT ![t] =
                      [@ EXCEPT !.pc = "idle", !.outcome = "computed", !.done = @ + 1]]
    /\ succeeded' = succeeded \cup {threads[t].url}
    /\ UNCHANGED <<pipelineVars, serviceVars, id_cache>>

NextCache ==
    \E t \in Threads :
        \/ BeginRequest(t)
        \/ StoreId(t)
        \/ LookupCaptions(t)
        \/ FetchCaptions(t)
        \/ StoreCaptions(t)

SpecCache == InitCache /\ [][NextCache]_vars

(***************************************************************************)
(* The two caches at their capacities: one caller after the other calls    *)
(* get_youtube_video_id, or extract_from_captions, on one address after    *)
(* the other until the cache of that method is one entry short of full,    *)
(* and then on new addresses and on addresses the cache holds.             *)
(***************************************************************************)
\* the i-th video and its address
VideoId(i) ==
    "clip0000" \o Ch(Digits, ((i \div 100) % 10) + 1)
               \o Ch(Digits, ((i \div 10) % 10) + 1)
               \o Ch(Digits, (i % 10) + 1)

VideoURL(i) == "https://youtu.be/" \o VideoId(i)

VideoNumber(vid) ==
    100 * (IndexOf(Ch(vid, 9), Digits) - 1) + 10 * (IndexOf(Ch(vid, 10), Digits) - 1)
        + (IndexOf(Ch(vid, 11), Digits) - 1)

\* what get_transcript returns for a video, whenever it returns: every video
\* has a transcript of its own
TrackOf(vid) == << [text |-> "Go now", start |-> Rat(VideoNumber(vid), 1)] >>

localVars == <<requestVars, words, timestamps, captionVars, audio_success,
               url_index, loopVars, audio_error, collected, trace, error, result>>

\* the cache is full or one entry short of full
InWindow(cache, maxsize) == Len(cache) >= maxsize - 1

\* the addresses of the next call: one never used, and near the capacity also
\* the two least recently used and the most recently used of the cache
Offered(cache, maxsize) ==
    {VideoURL(client.next)} \cup
        (IF InWindow(cache, maxsize)
         THEN {cache[1].key, cache[2].key, cache[Len(cache)].key}
         ELSE {})

\* the caller after a call on url that was stored (or found) in its cache
ClientAfter(cache, maxsize, url, stored) ==
    [client EXCEPT !.next = IF stored /\ url = VideoURL(client.next) THEN @ + 1 ELSE @,
                   !.extra = IF InWindow(cache, maxsize) THEN @ + 1 ELSE @]

InitLRU ==
    /\ pc = "calling"
    /\ InitLocals
    /\ fn_arg = ""
    /\ fn_ret = <<>>
    /\ InitCaches
    /\ client \in {[target |-> t, next |-> 1, extra |-> 0] : t \in {"id", "captions"}}
    /\ effects = [parsed |-> FALSE, fetched |-> FALSE, clock |-> 0,
                  id_used |-> <<>>, caption_used |-> <<>>]
    /\ exchanges = <<>>

\* get_youtube_video_id(url), from the lookup in its cache to its return
Resolve ==
    /\ pc = "calling"
    /\ client.target = "id"
    /\ InWindow(id_cache, id_cache_maxsize) => client.extra < MaxExtra
    /\ \E url \in Offered(id_cache, id_cache_maxsize) :
         /\ fn_arg' = url
         /\ fn_ret' = <<CachedId(id_cache, url)>>
         /\ id_cache' = IdCacheAfter(id_cache, url)
         /\ effects' = [effects EXCEPT !.parsed = ~CacheHas(id_cache, url),
                                       !.fetched = FALSE,
                                       !.clock = @ + 1,
                                       !.id_used = (url :> effects.clock + 1) @@ @]
         /\ client' = ClientAfter(id_cache, id_cache_maxsize, url, TRUE)
    /\ UNCHANGED <<pc, localVars, caption_cache, threads, succeeded, exchanges>>

\* extract_from_captions(url), from the lookup in its cache to its return or
\* to the exception it raises again (fn_ret is then empty)
Captions ==
    /\ pc = "calling"
    /\ client.target = "captions"
    /\ InWindow(caption_cache, caption_cache_maxsize) => client.extra < MaxExtra
    /\ \E url \in Offered(caption_cache, caption_cache_maxsize) :
         /\ fn_arg' = url
         /\ IF CacheHas(caption_cache, url)
            THEN /\ fn_ret' = <<CacheGet(caption_cache, url)>>
                 /\ caption_cache' = CacheTouch(caption_cache, url)
                 /\ id_cache' = id_cache
                 /\ effects' = [effects EXCEPT !.parsed = FALSE,
                                               !.fetched = FALSE,
                                               !.clock = @ + 1,
                                               !.caption_used = (url :> effects.clock + 1) @@ @]
                 /\ client' = ClientAfter(caption_cache, caption_cache_maxsize, url, TRUE)
            ELSE /\ id_cache' = IdCacheAfter(id_cache, url)
                 /\ \/ \* get_transcript raises: nothing is stored
                       /\ InWindow(caption_cache, caption_cache_maxsize)
                       /\ fn_ret' = <<>>
                       /\ caption_cache' = caption_cache
                       /\ effects' = [effects EXCEPT
                                         !.parsed = ~CacheHas(id_cache, url),
                                         !.fetched = TRUE,
                                         !.clock = @ + 1,
                                         !.id_used = (url :> effects.clock + 1) @@ @]
                       /\ client' = ClientAfter(caption_cache, caption_cache_maxsize,
                                                url, FALSE)
                    \/ \* get_transcript returns the transcript of the video
                       LET value == extract_from_captions(TrackOf(CachedId(id_cache, url)))
                       IN  /\ fn_ret' = <<value>>
                           /\ caption_cache' = CacheStore(caption_cache, url, value,
                                                          caption_cache_maxsize)
                           /\ effects' = [effects EXCEPT
                                             !.parsed = ~CacheHas(id_cache, url),
                                             !.fetched = TRUE,
                                             !.clock = @ + 1,
                                             !.id_used = (url :> effects.clock + 1) @@ @,
                                             !.caption_used = (url :> effects.clock + 1) @@ @]
                           /\ client' = ClientAfter(caption_cache, caption_cache_maxsize,
                                                    url, TRUE)
    /\ UNCHANGED <<pc, localVars, threads, succeeded, exchanges>>

NextLRU ==
    \/ Resolve
    \/ Captions

SpecLRU == InitLRU /\ [][NextLRU]_vars

(***************************************************************************)
(* app.py: POST /get_sign.                                                 *)
(***************************************************************************)
\* the names app.py binds at module level: its imports, its assignments and
\* its functions
app_globals ==
    {"Flask", "request", "jsonify", "CORS", "SignLanguageInference", "WordExtractor",
     "os", "time", "traceback", "logging", "json", "app", "logger",
     "log_request_info", "handle_error", "MODEL_DIR", "MODEL_PATH",
     "WORD_TO_ID_PATH", "WORD_EMBEDDINGS_PATH", "sign_generator",
     "components_healthy", "root", "health_check", "get_sign", "translate_text",
     "get_vocabulary", "get_sign_language_videos"}

\* a global name is looked up when the statement that uses it runs
NameBound(name) == name \in app_globals

\* what a call gives: it raises with a message or returns a value
Raises(message) == [raised |-> TRUE, error |-> message, value |-> <<>>]

Returns(value) == [raised |-> FALSE, error |-> "", value |-> <<value>>]

\* str.isalpha(), over ASCII
isalpha(s) ==
    s # "" /\ CharsOf(s) \subseteq (CharsOf(Lowercase) \cup CharsOf(Uppercase))

\* SignLanguageInference.generate_keypoints(word): the word is checked, the
\* network gives NUM_FRAMES frames (keyframes is their number here), and any
\* failure on the way is raised again; failing holds the words on which the
\* network or the check of its output fails
generate_keypoints(word, failing) ==
    LET w == lower(strip(word))
    IN  IF w = "" \/ ~isalpha(w) THEN Raises("Invalid word format: '" \o w \o "'")
        ELSE IF Len(w) < 2 THEN Raises("Word '" \o w \o "' is too short")
        ELSE IF w \in failing THEN Raises("Invalid keypoint format")
        ELSE Returns([word |-> w, keyframes |-> NUM_FRAMES, fps |-> 30,
                      duration |-> Rat(NUM_FRAMES, 30)])

\* sign_generator.generate_keypoints(word) in app.py: sign_generator is None
\* when the model could not be loaded
SignFor(word, loaded, failing) ==
    IF ~loaded THEN Raises("'NoneType' object has no attribute 'generate_keypoints'")
    ELSE generate_keypoints(word, failing)

\* the entry of the response for one word
SignEntry(word, sign_data) ==
    [word |-> word, keyframes |-> sign_data.keyframes,
     duration |-> sign_data.duration, fps |-> sign_data.fps]

\* the two shapes of response: jsonify({...}) and jsonify({...}), 400.
\* data is a list here also where the code returns one dictionary
Success(data, ts) ==
    [status |-> 200, success |-> TRUE, error |-> "", data |-> data, timestamps |-> ts]

Failure(message) ==
    [status |-> 400, success |-> FALSE, error |-> message, data |-> <<>>,
     timestamps |-> <<>>]

\* the branch `if 'word' in data`
SignOfWord(body, loaded, failing) ==
    LET word == lower(strip(body.word))
        sign_data == SignFor(word, loaded, failing)
    IN  IF word = "" THEN Failure("Empty word provided")
        ELSE IF sign_data.raised THEN Failure(sign_data.error)
        ELSE Success(<<SignEntry(word, sign_data.value[1])>>, <<>>)

\* for word in word_data['words']: an exception of generate_keypoints ends
\* the loop and the request
SignsOfWords(word_data, loaded, failing) ==
    LET ws == word_data.words
        raising == {i \in 1..Len(ws) : SignFor(ws[i], loaded, failing).raised}
        first == CHOOSE i \in raising : \A j \in raising : i <= j
    IN  IF raising # {}
        THEN Failure(SignFor(ws[first], loaded, failing).error)
        ELSE Success([i \in 1..Len(ws) |->
                         SignEntry(ws[i], SignFor(ws[i], loaded, failing).value[1])],
                     word_data.timestamps)

\* the branch `elif 'video_url' in data`; extraction is what
\* extract_words(video_url) gives once it is called
SignsOfVideo(body, loaded, extraction, failing) ==
    IF body.video_url = "" THEN Failure("Empty video URL provided")
    ELSE IF ~NameBound("word_extractor")
    THEN Failure("name 'word_extractor' is not defined")
    ELSE IF extraction.raised THEN Failure(extraction.error)
    ELSE IF extraction.value[1].words = <<>>
    THEN Failure("Could not extract words from video: " \o body.video_url)
    ELSE SignsOfWords(extraction.value[1], loaded, failing)

\* get_sign(): every exception becomes the response with success false
get_sign(body, loaded, extraction, failing) ==
    IF body.keys = {} THEN Failure("No JSON data provided")
    ELSE IF "word" \in body.keys THEN SignOfWord(body, loaded, failing)
    ELSE IF "video_url" \in body.keys
    THEN SignsOfVideo(body, loaded, extraction, failing)
    ELSE Failure("Request must include either 'word' or 'video_url'")

\* the JSON bodies that are posted
Body(keys, word, url) == [keys |-> keys, word |-> word, video_url |-> url]

Bodies ==
    {Body({}, "", ""),
     Body({"word"}, " Go ", ""),
     Body({"word"}, " ", ""),
     Body({"video_url"}, "", ""),
     Body({"video_url"}, "", "https://youtu.be/dQw4w9WgXcQ"),
     Body({"text"}, "", "")}

\* what extract_words gives for the video of the request: its result for
\* words the captions gave, or the error of a video without words
Extractions ==
    {Returns(MakeResult(<<"we", "go", "go", "eat">>,
                        <<Rat(0, 1), Rat(0, 1), Rat(5, 2), Rat(5, 2)>>, TRUE, FALSE)),
     Raises("No words could be extracted from video")}

\* the words on which the network fails
Failing == {{}, {"go"}}

InitGetSign ==
    /\ pc = "listening"
    /\ InitLocals
    /\ fn_arg = <<>>
    /\ fn_ret = <<>>
    /\ InitCaches
    /\ InitService

\* one request from its arrival to its response; the model was loaded or not
\* when the module was imported, the same for every request of the process
GetSign ==
    /\ pc = "listening"
    /\ Len(exchanges) < MaxExchanges
    /\ \E body \in Bodies, loaded \in BOOLEAN, extraction \in Extractions,
          failing \in Failing :
         /\ exchanges # <<>> => loaded = exchanges[1].loaded
         /\ exchanges' = Append(exchanges,
                [body |-> body, loaded |-> loaded, extraction |-> extraction,
                 failing |-> failing,
                 response |-> get_sign(body, loaded, extraction, failing)])
    /\ UNCHANGED <<pipelineVars, cacheVars, client, effects>>

NextGetSign == GetSign

SpecGetSign == InitGetSign /\ [][NextGetSign]_vars

(***************************************************************************)
(* The properties.                                                         *)
(***************************************************************************)
Occurs(e) == \E i \in 1..Len(trace) : trace[i] = e

CountOf(e) == Cardinality({i \in 1..Len(trace) : trace[i] = e})

\* the calls the audio strategy makes
AudioCalls == {"YouTube", "extract_from_audio_stream", "streams",
               "stream_to_buffer", "record", "recognize_google"}

\* the calls that select, pull or recognise audio
StreamCalls == AudioCalls \ {"YouTube"}

AudioAttempted == \E i \in 1..Len(trace) : trace[i] \in AudioCalls

\* extract_words has ended for a URL that resolved
Done == pc \in {"returned", "raised"} /\ video_id # ""

CaptionsFailed == caption_error # ""

\* the distinct non-empty normalized forms of a sequence of words
Distinct(ws) == {clean_word(ws[i]) : i \in 1..Len(ws)} \ {""}

\* C1 as stated: whenever caption extraction failed or yielded fewer than 5
\* raw words, the audio strategy is attempted.
C1_AudioBelowThreshold ==
    Done => ((CaptionsFailed \/ Len(caption_result.words) < 5) => AudioAttempted)

\* C1 as amended: the audio strategy is attempted exactly when caption
\* extraction failed or yielded no word at all; captions yielding 1 to 4
\* words do not lead to an audio attempt.
C1_AudioOnlyWithoutCaptionWords ==
    Done => (AudioAttempted <=> (CaptionsFailed \/ Len(caption_result.words) = 0))

C1_Witness ==
    /\ Done
    /\ Len(caption_result.words) \in 1..4
    /\ ~AudioAttempted

\* C2 as stated: a resolved video longer than max_video_duration ends in
\* VideoTooLong raised to the caller, before any caption or audio call.
C2_GateBeforeAnyCall ==
    (Done /\ video_length > max_video_duration)
        => (pc = "raised" /\ error = "VideoTooLong" /\ trace = <<>>)

\* C2 as amended: for a resolved video longer than max_video_duration the
\* duration is checked only inside the audio strategy, after the caption
\* call and after connecting to the video; the check fails the audio
\* strategy before any audio stream is selected, pulled or recognised; the
\* failure is caught, so the caller gets NoWordsExtracted, or a result made
\* of caption words alone when captions yielded words; VideoTooLong never
\* reaches the caller.
C2_GateInsideAudio ==
    (video_id # "" /\ video_length > max_video_duration)
        => /\ \A i \in 1..Len(trace) : trace[i] \notin StreamCalls
           /\ pc \notin {"audio", "chunk", "audio_done"}
           /\ error \in {"", "NoWordsExtracted"}
           /\ audio_error = "VideoTooLong"
                => (Occurs("get_transcript") /\ Occurs("YouTube") /\ words = <<>>)
           /\ pc = "returned" => (caption_success /\ ~audio_success)

C2_Witness ==
    /\ pc = "raised"
    /\ video_length > max_video_duration
    /\ audio_error = "VideoTooLong"
    /\ error = "NoWordsExtracted"

\* C3 as stated: every returned result has uniqueWordCount = len(words) and
\* at most max_words = 100 words.
C3_Capped ==
    pc = "returned"
        => /\ result.metrics.unique_words = Len(result.words)
           /\ Len(result.words) <= 100

\* C3 as amended: every returned result has uniqueWordCount = len(words),
\* and that is the number of distinct normalized words collected: nothing
\* is cut off, also when more than 100 distinct words were collected.
C3_Uncapped ==
    pc = "returned"
        => /\ result.metrics.unique_words = Len(result.words)
           /\ Len(result.words) = Cardinality(Distinct(words))

C3_Witness ==
    /\ pc = "returned"
    /\ Len(result.words) > 100
    /\ result.metrics.unique_words = Len(result.words)

\* C4: every returned result has as many timestamps as words, and
\* timestamps[i] is a timestamp that was collected together with words[i].
C4_Alignment ==
    pc = "returned"
        => /\ Len(result.words) = Len(result.timestamps)
           /\ \A i \in 1..Len(result.words) :
                \E j \in 1..Len(collected) :
                    /\ clean_word(collected[j].word) = result.words[i]
                    /\ collected[j].timestamp = result.timestamps[i]

C4_Witness ==
    /\ pc = "returned"
    /\ Len(result.words) < Len(words)
    /\ Len(result.words) >= 2
    /\ result.timestamps[1] # result.timestamps[2]

\* C5: the caption strategy has been attempted and has concluded before
\* anything of the audio strategy happens, the decision to run audio is
\* evaluated once, and the audio strategy is attempted at most once.
C5_Ordering ==
    /\ \A i \in 1..Len(trace) :
          trace[i] \in AudioCalls
             => \E j \in 1..(i - 1) :
                    /\ trace[j] = "decide"
                    /\ \E k \in 1..(j - 1) : trace[k] = "get_transcript"
    /\ pc \in {"connect", "audio", "chunk", "audio_done"}
          => (Occurs("get_transcript") /\ pc # "captions")
    /\ CountOf("get_transcript") <= 1
    /\ CountOf("decide") <= 1
    /\ CountOf("extract_from_audio_stream") <= 1

C5_Witness ==
    /\ pc = "chunk"
    /\ CaptionsFailed
    /\ CountOf("extract_from_audio_stream") = 1
    /\ CountOf("decide") = 1

C7_NoWordsExtracted ==
    /\ (Done /\ words = <<>>)
          => (pc = "raised" /\ error = "NoWordsExtracted" /\ result = NoResult)
    /\ pc = "raised" => result = NoResult

C7_Witness ==
    /\ pc = "raised"
    /\ error = "NoWordsExtracted"
    /\ ~CaptionsFailed
    /\ Occurs("get_transcript")
    /\ audio_error = "NoAudioWords"

\* C8: a failure inside the caption or the audio strategy is caught and
\* never reaches the caller; the caller sees no error other than
\* InvalidURL, VideoTooLong and NoWordsExtracted.
C8_Propagation ==
    /\ error \in {"", "InvalidURL", "VideoTooLong", "NoWordsExtracted"}
    /\ (error # "") <=> (pc = "raised")
    /\ (pc = "raised" /\ (CaptionsFailed \/ audio_error # ""))
          => error = "NoWordsExtracted"

C8_Witness ==
    /\ pc = "raised"
    /\ caption_error = "NoCaptions"
    /\ audio_error = "NoAudioStream"
    /\ error = "NoWordsExtracted"

\* the first place at which normalized word w was collected
FirstAt(w) ==
    CHOOSE j \in 1..Len(collected) :
        /\ clean_word(collected[j].word) = w
        /\ \A k \in 1..(j - 1) : clean_word(collected[k].word) # w

\* C9: the result holds each distinct normalized word once, in the order of
\* the first occurrences, each with the timestamp of its first occurrence.
C9_Dedup ==
    pc = "returned"
        => /\ \A i, k \in 1..Len(result.words) :
                result.words[i] = result.words[k] => i = k
           /\ Range(result.words) = Distinct(WordsOf(collected))
           /\ Len(result.timestamps) = Len(result.words)
           /\ \A i \in 1..Len(result.words) :
                result.timestamps[i] = collected[FirstAt(result.words[i])].timestamp
           /\ \A i \in 1..(Len(result.words) - 1) :
                FirstAt(result.words[i]) < FirstAt(result.words[i + 1])

C9_Witness ==
    /\ pc = "returned"
    /\ words = <<"go", "go", "eat">>
    /\ result.words = <<"go", "eat">>
    /\ timestamps[1] # timestamps[2]

\* a step that is one iteration of the chunk loop on a recorded chunk
ChunkStep == pc = "chunk" /\ chunk_index' = chunk_index + 1

\* how that iteration ended
Outcome == chunk_outcomes'[Len(chunk_outcomes')]

\* the iteration skipped its chunk: nothing emitted, the offset one chunk
\* further, the loop goes on
Skipped ==
    /\ a_words' = a_words
    /\ a_timestamps' = a_timestamps
    /\ offset' = RatAdd(offset, Rat(chunk_duration, 1))
    /\ pc' = "chunk"

\* every chunk starts at its index times chunk_duration
OffsetFollowsIndex ==
    pc = "chunk" => offset = Rat(chunk_index * chunk_duration, 1)

\* what was emitted for earlier chunks stays as it was
KeepsEarlier ==
    /\ Len(a_words) <= Len(a_words')
    /\ SubSeq(a_words', 1, Len(a_words)) = a_words
    /\ SubSeq(a_timestamps', 1, Len(a_timestamps)) = a_timestamps

\* C10 as stated: whenever recognition of a chunk fails (no speech, a
\* timeout, another error) the chunk is skipped, the offset advances by
\* chunk_duration and the loop goes on to the next chunk.
C10_EveryFailureSkips ==
    [][(ChunkStep /\ Outcome \in ChunkErrors) => Skipped]_vars

\* C10 as amended: when recognition of a chunk fails with UnknownValueError
\* or with any exception other than WaitTimeoutError, nothing is emitted
\* for the chunk, the offset advances by exactly chunk_duration and the loop
\* goes on, so chunk j starts at offset j * chunk_duration and what other
\* chunks emitted is unaffected; a WaitTimeoutError ends the loop instead:
\* no later chunk is processed, and the words emitted so far are kept.
C10_ChunkSkip ==
    /\ []OffsetFollowsIndex
    /\ [][ChunkStep => KeepsEarlier]_vars
    /\ [][(ChunkStep /\ Outcome \in {"UnknownValueError", "Exception"})
             => Skipped]_vars
    /\ [][(ChunkStep /\ Outcome = "WaitTimeoutError")
             => (pc' = "audio_done" /\ a_words' = a_words /\ offset' = offset)]_vars

\* chunk 0 failed and chunk 1 was processed all the same, from offset 5
C10_Witness ==
    /\ pc = "chunk"
    /\ chunk_outcomes = <<"UnknownValueError", "recognized">>
    /\ a_words = <<"go">>
    /\ a_timestamps = <<Rat(3 * chunk_duration, 2)>>
    /\ offset = Rat(2 * chunk_duration, 1)

\* the iterations of the chunk loop that ended in WaitTimeoutError
TimedOut == {k \in 1..Len(chunk_outcomes) : chunk_outcomes[k] = "WaitTimeoutError"}

\* the audio strategy is over, whichever way
AudioOver == pc \in {"final", "returned", "raised"}

\* C11 as stated: a chunk whose recognition times out is handled like a
\* recognition failure: it is skipped, the offset advances and the loop goes
\* on, so the chunks after a timed-out chunk are still processed.
C11_TimeoutSkips ==
    \A k \in TimedOut :
        /\ pc \in {"chunk", "audio_done"}
              => RatLeq(Rat(k * chunk_duration, 1), offset)
        /\ (k = Len(chunk_outcomes) /\ stream_chunks > 0) => pc = "chunk"

\* C11 as amended: a chunk whose recognition raises WaitTimeoutError is not
\* skipped: the loop ends there, the offset is not advanced and no chunk
\* after it is processed, whatever is left in the stream; the words emitted
\* for the chunks before it are kept and, when there are any, the audio
\* strategy succeeds with them.
C11_TimeoutEndsLoop ==
    \A k \in TimedOut :
        /\ k = Len(chunk_outcomes)
        /\ chunk_index = k
        /\ pc # "chunk"
        /\ offset = Rat((k - 1) * chunk_duration, 1)
        /\ (AudioOver /\ a_words # <<>>)
              => /\ audio_success
                 /\ Len(words) >= Len(a_words)
                 /\ SubSeq(words, Len(words) - Len(a_words) + 1, Len(words)) = a_words

\* chunk 0 timed out while a chunk was left in the stream
C11_Witness ==
    /\ pc = "audio_done"
    /\ chunk_outcomes = <<"WaitTimeoutError">>
    /\ stream_chunks > 0
    /\ offset = Rat(0, 1)

RatLess(a, b) == ~RatLeq(b, a)

\* the offset at which the k-th recorded chunk starts
ChunkOffset(k) == Rat((k - 1) * chunk_duration, 1)

\* the tokens of every text a chunk can be recognised as ("" for a chunk
\* that was not recognised), and their normalized forms
ChunkTokens == [text \in ChunkTexts \cup {""} |-> FindWords(lower(text))]

ChunkCleaned ==
    [text \in ChunkTexts \cup {""} |->
        [j \in 1..Len(ChunkTokens[text]) |-> clean_word(ChunkTokens[text][j])]]

\* what C14 prescribes for a chunk recognised as text at offset off: token
\* i of n, counted from 0 over all the tokens, gets off + i * (chunk_duration / n),
\* and the tokens that normalize to nothing are then left out
Prescribed(text, off) ==
    LET n == Len(ChunkTokens[text])
        all == [j \in 1..n |->
                  [word |-> ChunkCleaned[text][j],
                   timestamp |-> Rat(off.n * n + (j - 1) * chunk_duration * off.d,
                                     off.d * n)]]
    IN  SelectSeq(all, LAMBDA p : p.word # "")

\* the prescribed pairs of the chunks k, k + 1, ... in order
RECURSIVE PrescribedFrom(_)
PrescribedFrom(k) ==
    IF k > Len(chunk_texts) THEN <<>>
    ELSE Prescribed(chunk_texts[k], ChunkOffset(k)) \o PrescribedFrom(k + 1)

\* C14: in a chunk recognised as n > 0 tokens, the token of index i (from 0,
\* counted over all tokens of the chunk, dropped ones included) that
\* survives normalization gets chunk_offset + i * (chunk_duration / n);
\* every such timestamp lies in [chunk_offset, chunk_offset + chunk_duration);
\* a chunk of 5 kept words at offset 0 gets 0, 1, 2, 3, 4.
C14_TimestampSynthesis ==
    /\ a_collected = PrescribedFrom(1)
    /\ a_words = WordsOf(a_collected)
    /\ a_timestamps = TimestampsOf(a_collected)
    /\ \A k \in 1..Len(chunk_texts) :
          \A t \in Range(TimestampsOf(Prescribed(chunk_texts[k], ChunkOffset(k)))) :
              /\ RatLeq(ChunkOffset(k), t)
              /\ RatLess(t, ChunkOffset(k + 1))
    /\ (chunk_texts # <<>> /\ chunk_texts[1] = "we go now see eat")
          => SubSeq(a_timestamps, 1, 5)
               = <<Rat(0, 1), Rat(1, 1), Rat(2, 1), Rat(3, 1), Rat(4, 1)>>

\* five words in chunk 0, then "um go" in chunk 1: go is token 1 of 2
C14_Witness ==
    /\ chunk_texts = <<"we go now see eat", "um go">>
    /\ a_words = <<"we", "go", "now", "see", "eat", "go">>
    /\ a_timestamps = <<Rat(0, 1), Rat(1, 1), Rat(2, 1), Rat(3, 1), Rat(4, 1), Rat(15, 2)>>

\* the letters a to z
Letters == CharsOf(Lowercase)

\* a non-empty normalized word: lowercase letters only, at least
\* min_word_length of them, and not a filler
WellFormed(w) ==
    /\ w # ""
    /\ Len(w) >= min_word_length
    /\ \A i \in 1..Len(w) : Ch(w, i) \in Letters
    /\ w \notin noise_words

\* how many tokens of the chunks k, k + 1, ... have a non-empty normalized form
RECURSIVE KeptTokens(_)
KeptTokens(k) ==
    IF k > Len(chunk_texts) THEN 0
    ELSE Len(SelectSeq(ChunkCleaned[chunk_texts[k]], LAMBDA w : w # ""))
         + KeptTokens(k + 1)

\* C17: every word of a returned result is a non-empty normalized word
\* (only a-z, at least min_word_length letters, not a filler); a token whose
\* normalized form is empty is never emitted and contributes no timestamp.
C17_WordForm ==
    /\ pc = "returned"
          => /\ Len(result.timestamps) = Len(result.words)
             /\ \A i \in 1..Len(result.words) : WellFormed(result.words[i])
    /\ \A i \in 1..Len(collected) : WellFormed(collected[i].word)
    /\ \A i \in 1..Len(a_words) : WellFormed(a_words[i])
    /\ Len(a_words) = KeptTokens(1)
    /\ Len(a_timestamps) = KeptTokens(1)
    /\ Len(caption_result.timestamps) = Len(caption_result.words)
    /\ Len(caption_result.words) <= caption_tokens

\* the filler of "um go" left neither a word nor a timestamp
C17_Witness ==
    /\ pc = "returned"
    /\ chunk_texts = <<"um go">>
    /\ result.words = <<"go">>
    /\ result.timestamps = <<Rat(chunk_duration, 2)>>

\* how many tokens findall gave over the recognised texts of the chunks k, k + 1, ...
RECURSIVE AudioTokens(_)
AudioTokens(k) ==
    IF k > Len(chunk_texts) THEN 0
    ELSE Len(ChunkTokens[chunk_texts[k]]) + AudioTokens(k + 1)

CaptionsRan == Occurs("get_transcript")

AudioRan == Occurs("extract_from_audio_stream")

\* C18 as stated: in every returned result caption_success (audio_success)
\* is true exactly when that strategy ran and produced at least one raw
\* token, total_words is the number of raw tokens collected before
\* normalization and deduplication, and unique_words equals len(words).
C18_RawMetrics ==
    pc = "returned"
        => /\ result.metrics.caption_success <=> (CaptionsRan /\ caption_tokens >= 1)
           /\ result.metrics.audio_success <=> (AudioRan /\ AudioTokens(1) >= 1)
           /\ result.metrics.total_words = caption_tokens + AudioTokens(1)
           /\ result.metrics.unique_words = Len(result.words)

\* C18 as amended: in every returned result caption_success
\* (audio_success) is true exactly when that strategy ran and produced at
\* least one token with a non-empty normalized form; total_words is the
\* number of such tokens the strategies emitted, counted before
\* deduplication, the tokens that normalize to nothing not being counted;
\* unique_words equals len(words).
C18_NormalizedMetrics ==
    pc = "returned"
        => /\ result.metrics.caption_success
                <=> (CaptionsRan /\ Len(caption_result.words) >= 1)
           /\ result.metrics.audio_success <=> (AudioRan /\ KeptTokens(1) >= 1)
           /\ result.metrics.total_words
                = Len(caption_result.words) + (IF AudioRan THEN KeptTokens(1) ELSE 0)
           /\ result.metrics.total_words = Len(collected)
           /\ result.metrics.total_words <= caption_tokens + AudioTokens(1)
           /\ result.metrics.unique_words = Len(result.words)

\* three caption tokens, one of them a digit: two words counted
C18_Witness ==
    /\ pc = "returned"
    /\ caption_tokens = 3
    /\ caption_result.words = <<"go", "eat">>
    /\ result.metrics.total_words = 2
    /\ result.metrics.caption_success

\* C19: for any finite stream and any outcomes of the chunks, the chunk loop
\* stops once the stream is exhausted: no iteration that starts on an
\* exhausted stream leaves the loop running, so chunks are never requested
\* without end.
C19_StopsWhenExhausted ==
    [][(pc = "chunk" /\ stream_chunks = 0) => pc' # "chunk"]_vars

\* the stream is exhausted, a chunk was recorded and recognised all the
\* same, and the loop is where it was, about to record again
C19_Witness ==
    /\ pc = "chunk"
    /\ stream_chunks = 0
    /\ eof_reads >= 1
    /\ chunk_outcomes[Len(chunk_outcomes)] \in {"UnknownValueError", "Exception"}
    /\ offset = Rat(chunk_index * chunk_duration, 1)

\* C16: clean_word is idempotent: for every input string, cleaning what
\* clean_word returned gives that same string again (contractions,
\* apostrophes, characters that are not letters, fillers, short strings).
C16_Idempotent ==
    Len(fn_ret) = 2 => fn_ret[2] = fn_ret[1]

\* a contraction with capitals: "Don't" gives "do", and "do" gives "do"
C16_Witness ==
    /\ fn_arg = "Don't"
    /\ fn_ret = <<"do", "do">>

NonNegative(ts) == \A i \in 1..Len(ts) : ts[i].n >= 0 /\ ts[i].d > 0

NonDecreasing(ts) == \A i \in 1..(Len(ts) - 1) : RatLeq(ts[i], ts[i + 1])

\* the starts of the entries, in transcript order
StartsOf(transcript) == [i \in 1..Len(transcript) |-> transcript[i].start]

\* C15: no timestamp a strategy emits is negative, and within the output of
\* one strategy the timestamps never decrease in emission order: for
\* captions when the entries' starts are non-negative and do not decrease,
\* for audio whatever the mix of recognised, failed and timed-out chunks.
C15_TimestampOrder ==
    /\ NonNegative(a_timestamps)
    /\ NonDecreasing(a_timestamps)
    /\ (fn_ret # <<>> /\ NonNegative(StartsOf(fn_arg)) /\ NonDecreasing(StartsOf(fn_arg)))
          => /\ NonNegative(fn_ret[1].timestamps)
             /\ NonDecreasing(fn_ret[1].timestamps)
             /\ Len(fn_ret[1].timestamps) = Len(fn_ret[1].words)

\* chunk 0 failed, chunk 1 gave five words: 5, 6, 7, 8, 9
C15_Witness ==
    /\ pc = "returned"
    /\ chunk_outcomes = <<"Exception", "recognized">>
    /\ fn_ret # <<>>
    /\ fn_ret[1].timestamps = <<Rat(5, 1), Rat(6, 1), Rat(7, 1), Rat(8, 1), Rat(9, 1)>>

\* what a call of extract_from_captions(url) returns when nothing else runs
SequentialValues ==
    [url \in CacheURLs |-> extract_from_captions(CaptionTrack(get_youtube_video_id(url)))]

Sequential(url) == SequentialValues[url]

\* what get_youtube_video_id(url) returns
Identifiers == [url \in CacheURLs |-> get_youtube_video_id(url)]

\* C13 as stated: once extract_from_captions has returned for a video
\* identifier, a later caption extraction for that identifier, also one
\* asked through another shape of URL, is answered from the cache, without
\* another call to the caption provider.
C13_MemoPerVideo ==
    \A t \in Threads : threads[t].prior_id => ~threads[t].fetched

\* C13 as amended: the caption cache is keyed by the URL string as given,
\* not by the video identifier: once extract_from_captions has returned
\* for a URL, a later extraction for that same string is answered from the
\* cache with the same value and without a call to the caption provider
\* (as long as the entry is among the caption_cache_maxsize most recently
\* used); another shape of URL for the same video is another key and goes
\* to the provider again.
C13_MemoPerURL ==
    /\ \A t \in Threads :
          threads[t].prior_url
             => /\ ~threads[t].fetched
                /\ threads[t].pc \notin {"body", "store"}
                /\ threads[t].outcome \in {"", "hit"}
                /\ threads[t].outcome = "hit"
                      => threads[t].value = Sequential(threads[t].url)
    /\ CacheKeys(caption_cache) \subseteq succeeded
    /\ succeeded \subseteq CacheURLs

\* the video was extracted through one URL, and the request through the
\* other shape went to the provider and left a second entry
C13_Witness ==
    \E t \in Threads :
        /\ threads[t].prior_id
        /\ ~threads[t].prior_url
        /\ threads[t].fetched
        /\ threads[t].outcome = "computed"
        /\ Len(caption_cache) = 2

\* a thread that is inside a request can take its next step
CanStep(t) ==
    ENABLED (StoreId(t) \/ LookupCaptions(t) \/ FetchCaptions(t) \/ StoreCaptions(t))

SingleEntries(cache) ==
    \A i, j \in 1..Len(cache) : cache[i].key = cache[j].key => i = j

C22_NonEmptyResult ==
    pc = "returned"
        => /\ Len(result.words) >= 1
           /\ Len(result.timestamps) >= 1
           /\ 1 <= result.metrics.unique_words
           /\ result.metrics.unique_words <= result.metrics.total_words
           /\ words # <<>>

\* two collected words, a repeat: one word is returned
C22_Witness ==
    /\ pc = "returned"
    /\ words = <<"go", "go">>
    /\ result.words = <<"go">>
    /\ result.metrics.unique_words = 1
    /\ result.metrics.total_words = 2

\* C23: in every returned result exactly one of caption_success and
\* audio_success is true, and every collected word and timestamp comes
\* from that one strategy: caption words and audio words are never both
\* in one result.
C23_SingleStrategy ==
    pc = "returned"
        => /\ result.metrics.caption_success # result.metrics.audio_success
           /\ result.metrics.caption_success
                => /\ words = caption_result.words
                   /\ timestamps = caption_result.timestamps
                   /\ a_words = <<>>
                   /\ ~AudioAttempted
           /\ result.metrics.audio_success
                => /\ words = a_words
                   /\ timestamps = a_timestamps
                   /\ caption_result.words = <<>>
           /\ Range(result.timestamps) \subseteq
                (IF result.metrics.caption_success
                 THEN Range(caption_result.timestamps)
                 ELSE Range(a_timestamps))

\* the captions came but held fillers only, and the audio gave the words
C23_Witness ==
    /\ pc = "returned"
    /\ caption_tokens > 0
    /\ caption_error = ""
    /\ ~result.metrics.caption_success
    /\ result.metrics.audio_success
    /\ result.words = a_words

\* a served request the claim is about: only a video address, not empty,
\* whose extraction gives words, each of which can be synthesized
VideoServable(e) ==
    /\ e.body.keys = {"video_url"}
    /\ e.body.video_url # ""
    /\ ~e.extraction.raised
    /\ e.extraction.value[1].words # <<>>
    /\ \A i \in 1..Len(e.extraction.value[1].words) :
           ~SignFor(e.extraction.value[1].words[i], e.loaded, e.failing).raised

\* C24: a POST /get_sign request with a non-empty video_url whose words can be
\* extracted and synthesized is answered with success true, one data entry per
\* extracted word in order, and as many timestamps as entries.
C24_VideoServedEndToEnd ==
    \A i \in 1..Len(exchanges) :
        VideoServable(exchanges[i])
            => LET r == exchanges[i].response
                   ws == exchanges[i].extraction.value[1].words
               IN  /\ r.success
                   /\ r.status = 200
                   /\ Len(r.data) = Len(ws)
                   /\ \A j \in 1..Len(ws) : r.data[j].word = ws[j]
                   /\ Len(r.timestamps) = Len(r.data)

C24_Witness ==
    \E i \in 1..Len(exchanges) :
        /\ VideoServable(exchanges[i])
        /\ exchanges[i].response.status = 400
        /\ exchanges[i].response.error = "name 'word_extractor' is not defined"

\* the key of the cache whose last use, by the clock of the calls, is the oldest
LeastRecentlyUsed(cache, used) ==
    CHOOSE k \in CacheKeys(cache) : \A j \in CacheKeys(cache) : used[k] <= used[j]

\* one call seen from a cache of capacity maxsize: the cache stays within its
\* capacity, every entry that stays keeps its value, and an entry leaves only
\* when a new key comes into the full cache, and is then the one used longest ago
CacheStep(cache, after, used, maxsize) ==
    LET removed == CacheKeys(cache) \ CacheKeys(after)
        added == CacheKeys(after) \ CacheKeys(cache)
    IN  /\ Len(cache) <= maxsize
        /\ Len(after) <= maxsize
        /\ Cardinality(CacheKeys(after)) = Len(after)
        /\ \A k \in CacheKeys(cache) \cap CacheKeys(after) :
               CacheGet(after, k) = CacheGet(cache, k)
        /\ removed # {} => Len(cache) = maxsize /\ Cardinality(added) = 1
        /\ (added # {} /\ Len(cache) = maxsize)
               => removed = {LeastRecentlyUsed(cache, used)}
        /\ (added # {} /\ Len(cache) < maxsize) => removed = {}

\* a call whose key the cache of the called method holds returns the stored
\* value, and the body of the method does not run
HitReturnsStored ==
    /\ (client.target = "id" /\ fn_arg' \in CacheKeys(id_cache))
           => /\ fn_ret' = <<CacheGet(id_cache, fn_arg')>>
              /\ ~effects'.parsed
              /\ CacheKeys(id_cache') = CacheKeys(id_cache)
    /\ (client.target = "captions" /\ fn_arg' \in CacheKeys(caption_cache))
           => /\ fn_ret' = <<CacheGet(caption_cache, fn_arg')>>
              /\ ~effects'.parsed
              /\ ~effects'.fetched
              /\ id_cache' = id_cache
              /\ CacheKeys(caption_cache') = CacheKeys(caption_cache)
    /\ (client.target = "captions" /\ fn_arg' \notin CacheKeys(caption_cache))
           => /\ effects'.fetched
              /\ effects'.parsed = (fn_arg' \notin CacheKeys(id_cache))

\* C21: over any sequence of calls the cache of get_youtube_video_id holds at
\* most 100 entries and the cache of extract_from_captions at most 50; a new
\* key coming into a full cache evicts the least recently used entry, a hit
\* returns the stored value without parsing or fetching again, and no entry
\* leaves a cache for any other reason.
C21_BoundedLRU ==
    [][ /\ CacheStep(id_cache, id_cache', effects.id_used, id_cache_maxsize)
        /\ CacheStep(caption_cache, caption_cache', effects.caption_used,
                     caption_cache_maxsize)
        /\ HitReturnsStored ]_vars

\* the full cache of get_youtube_video_id has taken a new address after a hit
\* on its oldest entry: the second oldest has left, the oldest is still there
C21_Witness ==
    /\ Len(id_cache) = id_cache_maxsize
    /\ fn_arg = VideoURL(id_cache_maxsize + 1)
    /\ effects.parsed
    /\ VideoURL(1) \in CacheKeys(id_cache)
    /\ VideoURL(2) \notin CacheKeys(id_cache)

====
